---- MODULE Spec2Model ----
(***************************************************************************)
(* Browser automation agents of the repository: the selector fallback      *)
(* executors (fill_input / click_element / type_into / press_element),     *)
(* the task runners around Runner.run (talkToAgent, runTask,               *)
(* chatwithagent), the browser session tools (open_browser,                *)
(* close_browser, open_url) and the DOM snapshot tools (page_structure,     *)
(* inspect_dom).                                                           *)
(***************************************************************************)
EXTENDS Integers, Sequences, FiniteSets, TLC

VARIABLES
    \* ---- selector fallback executor (one tool call) ----
    tl,          \* the tool being executed, "none" before the call
    selectors,   \* the `selectors` argument
    idx,         \* position of `sel` in the for..of loop (1-based)
    epc,         \* where the call is: idle, wait, click, type, returned, threw
    ok,          \* typeInto/pressElement: `let ok`
    errorMsg,    \* typeInto/pressElement: `let errorMsg`
    ret,         \* what the call returned or threw
    tried,       \* history: selectors handed to waitForSelector, in order
    failed,      \* history: selectors whose attempt ended in the catch
    value,       \* the `value` / `text` argument: the characters to type
    field,       \* the element the candidates address: its lines of text
    selection,   \* where the caret is in it and whether a line is selected
    clicked,     \* history: page.click calls that went through
    field0,      \* history: the field as the call found it
    effected,    \* history: field and selection as the last page step left them
    \* ---- task runner around Runner.run ----
    prog,        \* which runner function was called, "none" before
    lpc,         \* where the runner function is
    turn,        \* the Runner's turn counter
    batch,       \* tool calls of the planner's current response
    cycles,      \* history: turns whose tool calls were executed
    captures,    \* history: screenshots taken
    acted,       \* history: fill / click tool calls executed in the latest turn
    seen,        \* history: what was observed since the last action (or the start)
    blind,       \* history: an action ran without snapshot and capture before it
    capturesAtSignal, \* history: captures at the planner's final output
    closes,      \* history: calls of browser.close()
    sessionOpen, \* a browser is up
    log,         \* console lines of the runner function
    runOut,      \* how runner.run ended
    fnOut,       \* how the runner function's promise ended
    \* ---- browser session tools ----
    variant,     \* "guarded": `let browser = null; let page = null` and its tools
                 \* "pages": `const browser`, `const page` and open_browser/open_url
                 \* "const": `const browserInstance`, `const activePage` and the
                 \*          capture tools that write a file
    browser,     \* the module's `browser` (an id, NoBrowser for null)
    page,        \* the module's `page` (NoPage for null)
    liveBrowsers,\* browsers launched and not closed
    pages,       \* live pages and the location each shows
    launched,    \* browsers launched so far
    created,     \* pages created so far
    slots,       \* tool invocations that may be in flight side by side
    calls,       \* per slot: the tool invocation in flight
    background,  \* page actions started without await and not yet settled
    written,     \* history: screenshot files written
    oplog,       \* history: completed tool invocations, in completion order
    \* ---- DOM snapshot tools ----
    doc,         \* the document of the page: its elements in document order
    snapTool,    \* the snapshot tool called last, "none" before
    scopeArg,    \* the scope / area argument as the planner gave it
    scope,       \* `scope` / `area` inside execute, after the default
    result       \* the array the page function returned

loopVars == <<prog, lpc, turn, batch, cycles, captures, acted, seen, blind,
              capturesAtSignal, closes, sessionOpen, log, runOut, fnOut>>

execVars == <<tl, selectors, idx, epc, ok, errorMsg, ret, tried, failed,
              value, field, selection, clicked, field0, effected>>

sessVars == <<variant, browser, page, liveBrowsers, pages, launched, created,
              slots, calls, background, written, oplog>>

snapVars == <<doc, snapTool, scopeArg, scope, result>>

vars == <<execVars, loopVars, sessVars, snapVars>>

(***************************************************************************)
(* Bounds                                                                  *)
(***************************************************************************)
MaxSel == 3          \* longest selector list handed to a tool

Sels == {"#id", "[name]", ".cls"}

RECURSIVE SeqsUpTo(_, _)
SeqsUpTo(S, n) ==
    IF n = 0 THEN {<<>>}
    ELSE LET shorter == SeqsUpTo(S, n - 1)
         IN  shorter \cup {Append(s, x) : s \in {t \in shorter : Len(t) = n - 1}, x \in S}

SelectorLists == SeqsUpTo(Sels, MaxSel)

(***************************************************************************)
(* Selector fallback executors                                             *)
(***************************************************************************)
FillTools  == {"inputWriter", "typeInto"}
ClickTools == {"clicker", "pressElement"}
ExecTools  == FillTools \cup ClickTools

\* `null` as it prints when concatenated to a string
Null  == <<"null">>
NoRet == [kind |-> "none"]

\* `${selectors}` : Array.prototype.toString, the elements joined by ","
RECURSIVE Join(_)
Join(s) ==
    IF Len(s) = 0 THEN <<>>
    ELSE IF Len(s) = 1 THEN <<s[1]>>
    ELSE <<s[1], ",">> \o Join(Tail(s))

\* err.message of the error a page step raised for selector sel
ErrMessage(step, sel) == <<step, sel>>

\* the value a successful attempt on sel hands back
SuccessResult(t, sel) ==
    IF t \in {"inputWriter", "clicker"}
    THEN [kind |-> "return", success |-> TRUE, selector |-> sel]
    ELSE [kind |-> "return", success |-> TRUE]

\* the error thrown once the for..of loop ran out of candidates
FailureResult(t, sels, em) ==
    CASE t = "inputWriter"  -> [kind |-> "throw", message |-> <<"Failed to fill input using: ">> \o Join(sels)]
      [] t = "clicker"      -> [kind |-> "throw", message |-> <<"Failed to click using: ">> \o Join(sels)]
      [] t = "typeInto"     -> [kind |-> "throw", message |-> <<"Failed typing: ">> \o em]
      [] t = "pressElement" -> [kind |-> "throw", message |-> <<"Failed clicking: ">> \o em]

\* catch (err): what errorMsg holds afterwards
CatchErrorMsg(t, em, step, sel) ==
    IF t \in {"typeInto", "pressElement"} THEN ErrMessage(step, sel) ELSE em

\* the loop head `for (const sel of selectors)` reached with position k:
\* either the next candidate's waitForSelector is issued or the loop is left
LoopHead(t, sels, k, em) ==
    /\ idx' = k
    /\ IF k <= Len(sels)
       THEN /\ epc' = "wait"
            /\ tried' = Append(tried, sels[k])
            /\ ret' = NoRet
       ELSE /\ epc' = "threw"
            /\ tried' = tried
            /\ ret' = FailureResult(t, sels, em)

\* ---- the field on the page ----
MaxVal == 2          \* longest value typed

Chars  == {"x", "y"}
Values == SeqsUpTo(Chars, MaxVal)

\* an <input> holds one line, a <textarea> may hold several
Fields ==
    {[tag |-> "input", lines |-> <<l>>] : l \in {<<>>, <<"x">>, <<"y">>}}
    \cup {[tag |-> "textarea", lines |-> <<<<"x">>, <<"y">>>>]}

EmptyInput  == [tag |-> "input", lines |-> <<<<>>>>]
NoSelection == [line |-> 0, range |-> FALSE]

\* page.click(sel, { clickCount: 3 }): the third click selects the paragraph
\* under the pointer, one line of the field; an empty line has nothing to
\* select and gets the caret
TripleClick(f) ==
    {[line |-> k, range |-> f.lines[k] # <<>>] : k \in 1..Len(f.lines)}

\* the keys of `chars` pressed one after the other: the first one replaces the
\* selected line, the others go behind it; no key, no change
TypeChars(f, sl, chars) ==
    IF chars = <<>> THEN [field |-> f, selection |-> sl]
    ELSE LET k  == IF sl.line = 0 THEN 1 ELSE sl.line
             ln == IF sl.range THEN chars ELSE f.lines[k] \o chars
         IN  [field |-> [f EXCEPT !.lines[k] = ln],
              selection |-> [line |-> k, range |-> FALSE]]

\* a catch block that puts the page back
Restored(now, before) == before

\* `catch (err) { continue; }`: the page stays as the failed step left it
Kept(now, before) == now

ExecCall(t, sels, v) ==
    /\ epc = "idle"
    /\ tl' = t
    /\ selectors' = sels
    /\ value' = IF t \in FillTools THEN v ELSE <<>>
    /\ ok' = FALSE
    /\ errorMsg' = Null
    /\ failed' = failed
    /\ LoopHead(t, sels, 1, Null)
    /\ UNCHANGED <<field, selection, clicked, field0, effected>>

\* an awaited page step raised and nothing catches it inside the loop
CatchRethrow(step) ==
    /\ errorMsg' = errorMsg
    /\ failed' = Append(failed, selectors[idx])
    /\ idx' = idx
    /\ epc' = "threw"
    /\ tried' = tried
    /\ ret' = [kind |-> "throw", message |-> ErrMessage(step, selectors[idx])]
    /\ UNCHANGED <<tl, selectors, ok, value>>

\* an awaited page step of the current candidate raised: catch, continue
Catch(step) ==
    /\ errorMsg' = CatchErrorMsg(tl, errorMsg, step, selectors[idx])
    /\ failed' = Append(failed, selectors[idx])
    /\ LoopHead(tl, selectors, idx + 1, errorMsg')
    /\ UNCHANGED <<tl, selectors, ok, value>>

\* the last awaited page step of the current candidate completed
Succeed ==
    /\ ok' = IF tl \in {"typeInto", "pressElement"} THEN TRUE ELSE ok
    /\ epc' = "returned"
    /\ ret' = SuccessResult(tl, selectors[idx])
    /\ UNCHANGED <<tl, selectors, idx, errorMsg, tried, failed, value>>

\* the page after a step that raised left it with field f and selection sl
PageAfterCatch(f, sl) ==
    /\ field' = Kept(f, field0)
    /\ selection' = Kept(sl, NoSelection)
    /\ effected' = [field |-> f, selection |-> sl]
    /\ UNCHANGED <<clicked, field0>>

\* await page.waitForSelector(sel, { visible: true, timeout: 4000 })
WaitForSelector ==
    /\ epc = "wait"
    /\ \E out \in {"ok", "err"} :
         IF out = "ok"
         THEN /\ epc' = "click"
              /\ UNCHANGED <<tl, selectors, idx, ok, errorMsg, ret, tried, failed, value>>
              /\ UNCHANGED <<field, selection, clicked, field0, effected>>
         ELSE /\ Catch("waitForSelector")
              /\ PageAfterCatch(field, selection)

\* await page.click(sel, { clickCount: 3 }) of the fill tools,
\* await page.click(sel) of the click tools
Click ==
    /\ epc = "click"
    /\ \E out \in {"ok", "err"} :
         IF out = "ok"
         THEN /\ clicked' = clicked + 1
              /\ field' = field
              /\ field0' = field0
              /\ IF tl \in FillTools
                 THEN /\ epc' = "type"
                      /\ selection' \in TripleClick(field)
                      /\ effected' = [field |-> field, selection |-> selection']
                      /\ UNCHANGED <<tl, selectors, idx, ok, errorMsg, ret, tried, failed, value>>
                 ELSE /\ Succeed
                      /\ UNCHANGED <<selection, effected>>
         ELSE /\ Catch("click")
              /\ PageAfterCatch(field, selection)

\* await page.type(sel, value, { delay }): the keys of value are pressed one
\* by one; a type that raises has pressed some of them, not all
Type ==
    /\ epc = "type"
    /\ \E out \in {"ok", "err"} :
         IF out = "ok"
         THEN LET r == TypeChars(field, selection, value)
              IN  /\ Succeed
                  /\ field' = r.field
                  /\ selection' = r.selection
                  /\ effected' = r
                  /\ UNCHANGED <<clicked, field0>>
         ELSE \E j \in 0..Len(value) :
                 /\ j = 0 \/ j < Len(value)
                 /\ LET r == TypeChars(field, selection, SubSeq(value, 1, j))
                    IN  /\ Catch("type")
                        /\ PageAfterCatch(r.field, r.selection)

\* no call yet, the page shows field f
ExecIdleOn(f) ==
    /\ tl = "none"
    /\ selectors = <<>>
    /\ idx = 0
    /\ epc = "idle"
    /\ ok = FALSE
    /\ errorMsg = Null
    /\ ret = NoRet
    /\ tried = <<>>
    /\ failed = <<>>
    /\ value = <<>>
    /\ field = f
    /\ selection = NoSelection
    /\ clicked = 0
    /\ field0 = f
    /\ effected = [field |-> f, selection |-> NoSelection]

ExecIdle == ExecIdleOn(EmptyInput)


(***************************************************************************)
(* Task runners: talkToAgent, runTask, chatwithagent around Runner.run     *)
(***************************************************************************)
Programs == {"talkToAgent", "talkToAgentB", "runTask", "chatwithagent"}

MaxBatch == 2        \* most tool calls in one planner response

maxTurnsTalk    == 25
maxTurnsTalkB   == 20
maxTurnsRunTask == 25
\* run(agent, query) passes no maxTurns: the Runner applies its own default,
\* which this repository does not set
MaxTurnsDefault == 10

maxTurns(p) ==
    CASE p = "talkToAgent"   -> maxTurnsTalk
      [] p = "talkToAgentB"  -> maxTurnsTalkB
      [] p = "runTask"       -> maxTurnsRunTask
      [] p = "chatwithagent" -> MaxTurnsDefault

\* the agent's `tools: [...]`, by what a tool does to the session
ToolKinds(p) ==
    IF p = "chatwithagent"
    THEN {"capture", "navigate", "snapshot", "action", "open", "close"}
    ELSE {"capture", "navigate", "snapshot", "action"}

\* the browser the program launches at module level, if it does
LaunchedAtLoad(p) == p # "chatwithagent"

Batches(p) == SeqsUpTo(ToolKinds(p), MaxBatch) \ {<<>>}

\* what the console line of a program says about the run
LogFinal(p) ==
    CASE p \in {"talkToAgent", "talkToAgentB"} -> "Final Log:"
      [] p = "runTask"       -> "Automation completed:"
      [] p = "chatwithagent" -> "History"

LogFailed(p) ==
    CASE p \in {"talkToAgent", "talkToAgentB"} -> "Agent failed:"
      [] p = "runTask"       -> "Automation failed:"
      [] p = "chatwithagent" -> "none"

LoopIdle ==
    /\ prog = "none"
    /\ lpc = "idle"
    /\ turn = 0
    /\ batch = <<>>
    /\ cycles = 0
    /\ captures = 0
    /\ acted = 0
    /\ seen = {}
    /\ blind = FALSE
    /\ capturesAtSignal = 0
    /\ closes = 0
    /\ sessionOpen = FALSE
    /\ log = <<>>
    /\ runOut = "pending"
    /\ fnOut = "pending"

\* the module's last statement: talkToAgent(`...`) / runTask(`...`) / chatwithagent("...")
TaskStart(p) ==
    /\ lpc = "idle"
    /\ prog' = p
    /\ lpc' = "model"
    /\ sessionOpen' = LaunchedAtLoad(p)
    /\ UNCHANGED <<turn, batch, cycles, captures, acted, seen, blind, capturesAtSignal,
                   closes, log, runOut, fnOut>>

\* `await runner.run(...)` resolved: the statements up to the next await
AfterRunResolved(p) ==
    /\ runOut' = "resolved"
    /\ log' = Append(log, LogFinal(p))
    /\ capturesAtSignal' = captures
    /\ CASE p \in {"talkToAgent", "talkToAgentB"} -> lpc' = "tryClose" /\ fnOut' = fnOut
         [] p = "runTask"       -> lpc' = "finallyClose" /\ fnOut' = fnOut
         [] p = "chatwithagent" -> lpc' = "done" /\ fnOut' = "resolved"

\* `await runner.run(...)` rejected with e: the statements up to the next await
AfterRunRejected(p, e) ==
    /\ runOut' = e
    /\ capturesAtSignal' = capturesAtSignal
    /\ CASE p \in {"talkToAgent", "talkToAgentB"} ->
              /\ log' = Append(log, LogFailed(p))
              /\ lpc' = "catchClose"
              /\ fnOut' = fnOut
         [] p = "runTask" ->
              /\ log' = Append(log, LogFailed(p))
              /\ lpc' = "finallyClose"
              /\ fnOut' = fnOut
         [] p = "chatwithagent" ->
              /\ log' = log
              /\ lpc' = "done"
              /\ fnOut' = "rejected"

\* One turn of Runner.run: the turn counter is raised and checked against
\* maxTurns, then the planner answers with a final output or with tool calls,
\* or the run rejects with an error it does not hand back to the planner.
RunnerTurn ==
    /\ lpc = "model"
    /\ turn' = turn + 1
    /\ IF turn' > maxTurns(prog)
       THEN /\ AfterRunRejected(prog, "MaxTurnsExceeded")
            /\ UNCHANGED <<batch>>
       ELSE \/ /\ AfterRunResolved(prog)
               /\ UNCHANGED <<batch>>
            \/ /\ AfterRunRejected(prog, "RunError")
               /\ UNCHANGED <<batch>>
            \/ \E b \in Batches(prog) :
                 /\ batch' = b
                 /\ lpc' = "tools"
                 /\ UNCHANGED <<capturesAtSignal, log, runOut, fnOut>>
    /\ UNCHANGED <<prog, cycles, captures, acted, seen, blind, closes, sessionOpen>>

\* an observation: a snapshot and a capture
Observation == {"snapshot", "capture"}

\* effect of the tool calls of one response on the session bookkeeping;
\* a tool that throws hands its error back to the planner
RECURSIVE ToolEffects(_, _)
ToolEffects(b, st) ==
    IF b = <<>> THEN st
    ELSE LET k == Head(b)
             nx == CASE k = "capture" ->
                         IF st.open
                         THEN [st EXCEPT !.captures = @ + 1, !.seen = @ \cup {"capture"}]
                         ELSE st
                     [] k = "snapshot" ->
                         IF st.open THEN [st EXCEPT !.seen = @ \cup {"snapshot"}] ELSE st
                     [] k = "action" ->
                         IF st.open
                         THEN [st EXCEPT !.acted = @ + 1, !.seen = {},
                                         !.blind = @ \/ (st.seen # Observation)]
                         ELSE st
                     [] k = "open"  -> [st EXCEPT !.open = TRUE]
                     [] k = "close" ->
                         IF st.open THEN [st EXCEPT !.open = FALSE, !.closes = @ + 1] ELSE st
                     [] OTHER -> st
         IN  ToolEffects(Tail(b), nx)

ToolsExec ==
    /\ lpc = "tools"
    /\ LET st == ToolEffects(batch, [open |-> sessionOpen, captures |-> captures,
                                     closes |-> closes, acted |-> 0,
                                     seen |-> seen, blind |-> blind])
       IN  /\ sessionOpen' = st.open
           /\ captures' = st.captures
           /\ closes' = st.closes
           /\ acted' = st.acted
           /\ seen' = st.seen
           /\ blind' = st.blind
    /\ cycles' = cycles + 1
    /\ batch' = <<>>
    /\ lpc' = "model"
    /\ UNCHANGED <<prog, turn, capturesAtSignal, log, runOut, fnOut>>

\* where control goes when the awaited browser.close() at position pc raised
CloseRaised(p, pc) ==
    IF pc = "tryClose"
    THEN [lpc |-> "catchClose", fnOut |-> "pending", log |-> <<LogFailed(p)>>]
    ELSE [lpc |-> "done", fnOut |-> "rejected", log |-> <<>>]

\* `await browserInstance.close()` / `await browser.close()` of the runner function
BrowserClose ==
    /\ lpc \in {"tryClose", "catchClose", "finallyClose"}
    /\ closes' = closes + 1
    /\ \E out \in {"ok", "err"} :
         IF out = "ok"
         THEN /\ sessionOpen' = FALSE
              /\ lpc' = "done"
              /\ fnOut' = "resolved"
              /\ log' = log
         ELSE LET c == CloseRaised(prog, lpc)
              IN  /\ sessionOpen' = sessionOpen
                  /\ lpc' = c.lpc
                  /\ fnOut' = c.fnOut
                  /\ log' = log \o c.log
    /\ UNCHANGED <<prog, turn, batch, cycles, captures, acted, seen, blind,
                   capturesAtSignal, runOut>>

\* the exit went through the catch block, or the function's promise rejected
TookFailurePath ==
    \/ fnOut = "rejected"
    \/ \E i \in 1..Len(log) : log[i] = LogFailed(prog)

\* the terminal state of the loop as the program tells it
LoopState ==
    IF lpc # "done" THEN "Running"
    ELSE IF TookFailurePath THEN "Failed"
    ELSE IF runOut = "resolved" THEN "Completed"
    ELSE "Exhausted"

(***************************************************************************)
(* Browser session tools                                                   *)
(***************************************************************************)
MaxLaunch == 2       \* browsers launched in one run
MaxPages  == 3       \* pages created in one run
MaxOps    == 4       \* tool invocations completed in one run

NoBrowser == 0
NoPage    == [b |-> 0, n |-> 0]
Urls      == {"u1", "u2"}
Blank     == "about:blank"

NoPages   == [q \in {} |-> Blank]

IdleCall  == [op |-> "idle", pc |-> "idle", b |-> NoBrowser, p |-> NoPage, arg |-> "none",
              pre |-> [browser |-> NoBrowser, page |-> NoPage, nb |-> 0, np |-> 0,
                       locs |-> NoPages]]

LivePages == DOMAIN pages

\* what an observer of the session sees
Snapshot ==
    [browser |-> browser, page |-> page,
     nb |-> Cardinality(liveBrowsers), np |-> Cardinality(LivePages), locs |-> pages]

SnapshotNext ==
    [browser |-> browser', page |-> page',
     nb |-> Cardinality(liveBrowsers'), np |-> Cardinality(DOMAIN pages'), locs |-> pages']

\* the planner invokes tool `op` in slot s: the synchronous prefix follows
Invoked(s) == calls[s].op = "idle" /\ Len(oplog) < MaxOps

\* the invocation in slot s settles with r (a returned value or a thrown error)
Complete(s, op, pre, r) ==
    /\ calls' = [calls EXCEPT ![s] = IdleCall]
    /\ oplog' = Append(oplog, [op |-> op, ret |-> r, pre |-> pre, post |-> SnapshotNext])

\* the invocation in slot s suspends at an await
Suspend(s, c) ==
    /\ calls' = [calls EXCEPT ![s] = c]
    /\ oplog' = oplog

\* a page with the given location is added to the live pages
WithPage(pg, where) == [q \in LivePages \cup {pg} |-> IF q = pg THEN where ELSE pages[q]]

\* the pages that survive the close of browser b
WithoutBrowser(b) == [q \in {r \in LivePages : r.b # b} |-> pages[q]]

\* ---- variant "guarded": openBrowser ----

\* `if (browser) return "Browser is already open"`
OpenGuard(br) == br # NoBrowser

OpenStart(s) ==
    /\ variant = "guarded"
    /\ Invoked(s)
    /\ UNCHANGED <<variant, background, written, browser, page, liveBrowsers, pages, launched, created, slots>>
    /\ IF OpenGuard(browser)
       THEN Complete(s, "openBrowser", Snapshot, [kind |-> "return", value |-> "Browser is already open"])
       ELSE Suspend(s, [IdleCall EXCEPT !.op = "openBrowser", !.pc = "launch", !.pre = Snapshot])

\* `browser = await chromium.launch(...)` settles; on success browser.newPage() is called
OpenLaunched(s) ==
    /\ calls[s].op = "openBrowser" /\ calls[s].pc = "launch"
    /\ UNCHANGED <<variant, background, written, page, pages, created, slots>>
    /\ \/ /\ launched < MaxLaunch
          /\ launched' = launched + 1
          /\ liveBrowsers' = liveBrowsers \cup {launched'}
          /\ browser' = launched'
          /\ Suspend(s, [calls[s] EXCEPT !.pc = "newPage", !.b = launched'])
       \/ /\ UNCHANGED <<launched, liveBrowsers, browser>>
          /\ Complete(s, "openBrowser", calls[s].pre, [kind |-> "throw", value |-> "launch failed"])

\* `page = await browser.newPage()` settles
OpenPaged(s) ==
    /\ calls[s].op = "openBrowser" /\ calls[s].pc = "newPage"
    /\ UNCHANGED <<variant, background, written, browser, liveBrowsers, launched, slots>>
    /\ \/ /\ calls[s].b \in liveBrowsers
          /\ created < MaxPages
          /\ created' = created + 1
          /\ LET pg == [b |-> calls[s].b, n |-> created']
             IN  /\ pages' = WithPage(pg, Blank)
                 /\ page' = pg
          /\ Complete(s, "openBrowser", calls[s].pre, [kind |-> "return", value |-> "Browser opened successfully"])
       \/ /\ UNCHANGED <<created, pages, page>>
          /\ Complete(s, "openBrowser", calls[s].pre, [kind |-> "throw", value |-> "newPage failed"])

\* ---- variant "guarded": closeBrowser ----

\* `if (browser)` of closeBrowser
CloseGuard(br) == br # NoBrowser

\* a close that resets the browser handle only
AfterCloseKeepsPage == [browser |-> NoBrowser, page |-> page]

\* `browser = null; page = null;` after the awaited close
AfterClose == [browser |-> NoBrowser, page |-> NoPage]

CloseStart(s) ==
    /\ variant = "guarded"
    /\ Invoked(s)
    /\ UNCHANGED <<variant, background, written, browser, page, liveBrowsers, pages, launched, created, slots>>
    /\ IF CloseGuard(browser)
       THEN Suspend(s, [IdleCall EXCEPT !.op = "closeBrowser", !.pc = "closing", !.b = browser, !.pre = Snapshot])
       ELSE Complete(s, "closeBrowser", Snapshot, [kind |-> "return", value |-> "No browser was open"])

\* `await browser.close()` settles
CloseDone(s) ==
    /\ calls[s].op = "closeBrowser" /\ calls[s].pc = "closing"
    /\ UNCHANGED <<variant, background, written, launched, created, slots>>
    /\ \/ /\ liveBrowsers' = liveBrowsers \ {calls[s].b}
          /\ pages' = WithoutBrowser(calls[s].b)
          /\ browser' = AfterClose.browser
          /\ page' = AfterClose.page
          /\ Complete(s, "closeBrowser", calls[s].pre, [kind |-> "return", value |-> "Browser closed successfully"])
       \/ /\ UNCHANGED <<liveBrowsers, pages, browser, page>>
          /\ Complete(s, "closeBrowser", calls[s].pre, [kind |-> "throw", value |-> "close failed"])

\* ---- variant "guarded": tools that need the page ----
PageTools == {"openUrl", "getElements", "fillForm", "clickElement", "takeScreenshot"}

\* a guard that lets every call through
PageMissingNever(pg) == FALSE

\* `if (!page)` at the head of every tool that needs the page
PageMissing(pg) == pg = NoPage

\* the message of the Error thrown behind `if (!page)`
NoPageError(op) ==
    IF op \in {"openUrl"} THEN "No browser open yet"
    ELSE IF op = "takeScreenshot" THEN "No page open yet"
    ELSE "No page opened yet"

\* the errors that tell the caller that the session has no page
SessionNotReady == {"No browser open yet", "No page open yet", "No page opened yet"}

\* what the tool returns once its page operation resolved
PageToolResult(op) ==
    IF op = "openUrl" THEN "Opened url successfully"
    ELSE IF op = "getElements" THEN "elements"
    ELSE IF op = "fillForm" THEN "Filled selector with value"
    ELSE IF op = "clickElement" THEN "Clicked on selector"
    ELSE "data:image/png;base64,image"

PageToolStart(s, op, u) ==
    /\ variant = "guarded"
    /\ Invoked(s)
    /\ UNCHANGED <<variant, background, written, browser, page, liveBrowsers, pages, launched, created, slots>>
    /\ IF PageMissing(page)
       THEN Complete(s, op, Snapshot, [kind |-> "throw", value |-> NoPageError(op)])
       ELSE Suspend(s, [IdleCall EXCEPT !.op = op, !.pc = "acting", !.p = page, !.arg = u, !.pre = Snapshot])

\* the awaited page.goto / page.evaluate / page.fill / page.click /
\* page.screenshot settles
PageToolDone(s) ==
    /\ calls[s].op \in PageTools /\ calls[s].pc = "acting"
    /\ UNCHANGED <<variant, background, written, browser, page, liveBrowsers, launched, created, slots>>
    /\ \/ /\ calls[s].p \in LivePages
          /\ pages' = IF calls[s].op = "openUrl"
                      THEN [pages EXCEPT ![calls[s].p] = calls[s].arg]
                      ELSE pages
          /\ Complete(s, calls[s].op, calls[s].pre, [kind |-> "return", value |-> PageToolResult(calls[s].op)])
       \/ /\ pages' = pages
          /\ Complete(s, calls[s].op, calls[s].pre, [kind |-> "throw", value |-> "page error"])

\* ---- variant "pages": open_browser / open_url on the module's const browser ----

\* open_browser: `await browser.newPage()`
NewPageStart(s) ==
    /\ variant = "pages"
    /\ Invoked(s)
    /\ UNCHANGED <<variant, background, written, browser, page, liveBrowsers, pages, launched, created, slots>>
    /\ Suspend(s, [IdleCall EXCEPT !.op = "openBrowser1", !.pc = "newPage", !.b = browser, !.pre = Snapshot])

NewPageDone(s) ==
    /\ calls[s].op = "openBrowser1" /\ calls[s].pc = "newPage"
    /\ UNCHANGED <<variant, background, written, browser, page, liveBrowsers, launched, slots>>
    /\ \/ /\ created < MaxPages
          /\ created' = created + 1
          /\ pages' = WithPage([b |-> calls[s].b, n |-> created'], Blank)
          /\ Complete(s, "openBrowser1", calls[s].pre, [kind |-> "return", value |-> "undefined"])
       \/ /\ UNCHANGED <<created, pages>>
          /\ Complete(s, "openBrowser1", calls[s].pre, [kind |-> "throw", value |-> "newPage failed"])

\* open_url: `const page = await browser.newPage()`
UrlStart(s, u) ==
    /\ variant = "pages"
    /\ Invoked(s)
    /\ UNCHANGED <<variant, background, written, browser, page, liveBrowsers, pages, launched, created, slots>>
    /\ Suspend(s, [IdleCall EXCEPT !.op = "openURL1", !.pc = "newPage", !.b = browser, !.arg = u, !.pre = Snapshot])

\* the local `page` exists: `await page.goto(url)` is issued
UrlPaged(s) ==
    /\ calls[s].op = "openURL1" /\ calls[s].pc = "newPage"
    /\ UNCHANGED <<variant, background, written, browser, page, liveBrowsers, launched, slots>>
    /\ \/ /\ created < MaxPages
          /\ created' = created + 1
          /\ LET pg == [b |-> calls[s].b, n |-> created']
             IN  /\ pages' = WithPage(pg, Blank)
                 /\ Suspend(s, [calls[s] EXCEPT !.pc = "goto", !.p = pg])
       \/ /\ UNCHANGED <<created, pages>>
          /\ Complete(s, "openURL1", calls[s].pre, [kind |-> "throw", value |-> "newPage failed"])

\* `await page.goto(url)` (and the optional waitForTimeout) settles
UrlDone(s) ==
    /\ calls[s].op = "openURL1" /\ calls[s].pc = "goto"
    /\ UNCHANGED <<variant, background, written, browser, page, liveBrowsers, launched, created, slots>>
    /\ \/ /\ pages' = [pages EXCEPT ![calls[s].p] = calls[s].arg]
          /\ Complete(s, "openURL1", calls[s].pre, [kind |-> "return", value |-> "undefined"])
       \/ /\ pages' = pages
          /\ Complete(s, "openURL1", calls[s].pre, [kind |-> "throw", value |-> "goto failed"])

\* click_screen: `page.mouse.click(input.x, input.y);` is started and not
\* awaited, execute returns at once
ClickScreen(s) ==
    /\ variant = "pages"
    /\ Invoked(s)
    /\ UNCHANGED <<variant, written, browser, page, liveBrowsers, pages, launched, created, slots>>
    /\ background' = background + 1
    /\ Complete(s, "clickOnScreen", Snapshot, [kind |-> "return", value |-> "undefined"])

\* a click started by click_screen settles
ClickSettled ==
    /\ background > 0
    /\ background' = background - 1
    /\ UNCHANGED <<variant, written, browser, page, liveBrowsers, pages, launched, created,
                   slots, calls, oplog>>

\* ---- variant "const": take_screenshot (screenshotTool) / capture_page ----
CaptureTools == {"screenshotTool", "capturePage"}

\* what page.screenshot() resolves to: the bytes of the image
Image == "image"

\* `snapshot-${Date.now()}.png` / `snap-${Date.now()}.png`
FileName(t) == IF t = "screenshotTool" THEN "snapshot-now.png" ELSE "snap-now.png"

\* `const img = await activePage.screenshot()` is issued
CaptureStart(s, t) ==
    /\ variant = "const"
    /\ Invoked(s)
    /\ UNCHANGED <<variant, background, written, browser, page, liveBrowsers, pages, launched,
                   created, slots>>
    /\ Suspend(s, [IdleCall EXCEPT !.op = t, !.pc = "screenshot", !.p = page, !.pre = Snapshot])

\* the screenshot settles; with the bytes in hand fs.promises.writeFile is issued
CaptureShot(s) ==
    /\ calls[s].op \in CaptureTools /\ calls[s].pc = "screenshot"
    /\ UNCHANGED <<variant, background, written, browser, page, liveBrowsers, pages, launched,
                   created, slots>>
    /\ \/ Suspend(s, [calls[s] EXCEPT !.pc = "writeFile", !.arg = Image])
       \/ Complete(s, calls[s].op, calls[s].pre, [kind |-> "throw", value |-> "screenshot failed"])

\* writeFile settles; `return { file }` / `return { path }`
CaptureWritten(s) ==
    /\ calls[s].op \in CaptureTools /\ calls[s].pc = "writeFile"
    /\ UNCHANGED <<variant, background, browser, page, liveBrowsers, pages, launched, created,
                   slots>>
    /\ \/ /\ written' = written + 1
          /\ Complete(s, calls[s].op, calls[s].pre, [kind |-> "return", value |-> FileName(calls[s].op)])
       \/ /\ written' = written
          /\ Complete(s, calls[s].op, calls[s].pre, [kind |-> "throw", value |-> "writeFile failed"])

\* the module is loaded: nothing launched ("guarded"), or the top-level
\* `await ...launch(...)` and `await browser.newPage()` are done ("pages", "const")
SessLoaded(v) ==
    /\ variant = v
    /\ oplog = <<>>
    /\ background = 0
    /\ written = 0
    /\ IF v \in {"pages", "const"}
       THEN /\ browser = 1
            /\ page = [b |-> 1, n |-> 1]
            /\ liveBrowsers = {1}
            /\ pages = [q \in {[b |-> 1, n |-> 1]} |-> Blank]
            /\ launched = 1
            /\ created = 1
       ELSE /\ browser = NoBrowser
            /\ page = NoPage
            /\ liveBrowsers = {}
            /\ pages = NoPages
            /\ launched = 0
            /\ created = 0

SessIdle ==
    /\ SessLoaded("guarded")
    /\ slots = {1}
    /\ calls = [s \in slots |-> IdleCall]


(***************************************************************************)
(* DOM snapshot tools: page_structure (domExplorer) and inspect_dom        *)
(***************************************************************************)
MaxDoc == 2          \* elements in the document

SnapTools == {"domExplorer", "inspectDOM"}
Scopes    == {"form", "input", "button", "all"}
ScopeArgs == Scopes \cup {"undefined"}

\* an element: its tag and its content attributes; "" (<<>> for the class
\* list) is an attribute that is absent or empty
El(tag, id, name, ph, ty, cls) ==
    [tag |-> tag, id |-> id, name |-> name, placeholder |-> ph, typeAttr |-> ty,
     className |-> cls]

Elements ==
    {El("form", i, "", "", "", <<>>) : i \in {"", "f"}}
    \cup {El("input", i, n, ph, "", c) :
            i \in {"", "i"}, n \in {"", "n"}, ph \in {"", "p"}, c \in {<<>>, <<"c">>}}
    \cup {El("input", i, "", "", "submit", c) : i \in {"", "i"}, c \in {<<>>, <<"c">>}}
    \cup {El("input", "", "", "", "button", <<>>),
          El("textarea", "", "", "p", "", <<>>),
          El("select", "", "n", "p", "", <<>>)}
    \cup {El("button", i, "", "", "", c) : i \in {"", "b"}, c \in {<<>>, <<"c">>, <<"c", "d">>}}
    \cup {El("button", "", "", "", "button", <<>>)}

Docs == SeqsUpTo(Elements, MaxDoc)

\* ---- what the DOM gives for the properties the page functions read ----

\* the type attribute as written in the markup
ElTypeAttr(e) == e.typeAttr

\* el.type: an input without type attribute is a "text" input, a button
\* without one a "submit" button; textarea and select have a fixed type
ElType(e) ==
    CASE e.tag = "input"    -> IF e.typeAttr = "" THEN "text" ELSE e.typeAttr
      [] e.tag = "button"   -> IF e.typeAttr = "" THEN "submit" ELSE e.typeAttr
      [] e.tag = "textarea" -> "textarea"
      [] e.tag = "select"   -> "select-one"
      [] OTHER              -> ""

\* el.placeholder: input and textarea reflect the attribute, a select has no
\* such property (undefined)
ElPlaceholder(e) == IF e.tag \in {"input", "textarea"} THEN e.placeholder ELSE ""

\* the selector the buttons pass queries
ButtonQuery(t) ==
    IF t = "domExplorer"
    THEN "button, input[type='submit'], input[type='button']"
    ELSE "button, input[type='submit']"

\* element e matches selector q
Matches(q, e) ==
    CASE q = "form" -> e.tag = "form"
      [] q = "input, textarea, select" -> e.tag \in {"input", "textarea", "select"}
      [] q = "button, input[type='submit'], input[type='button']" ->
            \/ e.tag = "button"
            \/ e.tag = "input" /\ e.typeAttr \in {"submit", "button"}
      [] q = "button, input[type='submit']" ->
            \/ e.tag = "button"
            \/ e.tag = "input" /\ e.typeAttr = "submit"

\* document.querySelectorAll(q): the matching nodes, in document order
QuerySelectorAll(d, q) ==
    SelectSeq([i \in 1..Len(d) |-> i], LAMBDA i : Matches(q, d[i]))

\* ---- selector candidates, as the template strings build them ----
IdSel(v)          == <<"#", v>>
NameSel(v)        == <<"[name=", v, "]">>
PlaceholderSel(v) == <<"[placeholder=", v, "]">>
InputTypeSel(v)   == <<"input[type=", v, "]">>
TypeSel(v)        == <<"[type=", v, "]">>

\* "." + className.split(" ").join(".")
RECURSIVE ClassSel(_)
ClassSel(c) == IF c = <<>> THEN <<>> ELSE <<".", Head(c)>> \o ClassSel(Tail(c))

\* `if (x) opts.push(sel)`
Push(x, sel) == IF x THEN <<sel>> ELSE <<>>

\* opts / s of the inputs pass
FieldSelectors(t, e) ==
    IF t = "domExplorer"
    THEN Push(e.id # "", IdSel(e.id))
         \o Push(e.name # "", NameSel(e.name))
         \o Push(ElType(e) # "", InputTypeSel(ElType(e)))
         \o Push(ElPlaceholder(e) # "", PlaceholderSel(ElPlaceholder(e)))
    ELSE Push(e.id # "", IdSel(e.id))
         \o Push(e.name # "", NameSel(e.name))
         \o Push(ElPlaceholder(e) # "", PlaceholderSel(ElPlaceholder(e)))
         \o Push(ElType(e) # "", InputTypeSel(ElType(e)))

\* opts / s of the buttons pass
ButtonSelectors(e) ==
    Push(e.id # "", IdSel(e.id))
    \o Push(e.className # <<>>, ClassSel(e.className))
    \o Push(ElType(e) # "", TypeSel(ElType(e)))

\* ---- the objects pushed to the result; `node` is the position of the
\* ---- element in the document (history, not part of the object)
FormDescriptor(t, d, i, k) ==
    IF t = "domExplorer"
    THEN [node |-> i, type |-> "form", selector |-> [css |-> "form:nth-of-type", n |-> k],
          id |-> d[i].id, class |-> d[i].className]
    ELSE [node |-> i, tag |-> "form", idx |-> k - 1,
          selector |-> [css |-> "form:nth-child", n |-> k], id |-> d[i].id]

FieldDescriptor(t, d, i) ==
    IF t = "domExplorer"
    THEN [node |-> i, type |-> d[i].tag, inputType |-> ElType(d[i]), id |-> d[i].id,
          name |-> d[i].name, class |-> d[i].className,
          placeholder |-> ElPlaceholder(d[i]), selectors |-> FieldSelectors(t, d[i])]
    ELSE [node |-> i, tag |-> d[i].tag, type |-> ElType(d[i]), id |-> d[i].id,
          name |-> d[i].name, placeholder |-> ElPlaceholder(d[i]),
          selectors |-> FieldSelectors(t, d[i])]

ButtonDescriptor(t, d, i) ==
    IF t = "domExplorer"
    THEN [node |-> i, type |-> "button", id |-> d[i].id, class |-> d[i].className,
          selectors |-> ButtonSelectors(d[i])]
    ELSE [node |-> i, tag |-> d[i].tag, type |-> ElType(d[i]), id |-> d[i].id,
          selectors |-> ButtonSelectors(d[i])]

\* the page function: forms, then inputs, then buttons; its scope / focus
\* parameter is not read
Extract(t, d, sc) ==
    LET forms   == QuerySelectorAll(d, "form")
        fields  == QuerySelectorAll(d, "input, textarea, select")
        buttons == QuerySelectorAll(d, ButtonQuery(t))
    IN  [k \in 1..Len(forms) |-> FormDescriptor(t, d, forms[k], k)]
        \o [k \in 1..Len(fields) |-> FieldDescriptor(t, d, fields[k])]
        \o [k \in 1..Len(buttons) |-> ButtonDescriptor(t, d, buttons[k])]

\* `.default("form")` of the parameter schema
ScopeDefault(arg) == IF arg = "undefined" THEN "form" ELSE arg

\* page_structure / inspect_dom: execute (one call is followed)
SnapshotCall(t, arg) ==
    /\ snapTool = "none"
    /\ snapTool' = t
    /\ scopeArg' = arg
    /\ scope' = ScopeDefault(arg)
    /\ result' = Extract(t, doc, ScopeDefault(arg))
    /\ doc' = doc

PageStructure == \E arg \in ScopeArgs : SnapshotCall("domExplorer", arg)

InspectDom == \E arg \in ScopeArgs : SnapshotCall("inspectDOM", arg)

\* no snapshot tool was called yet
SnapIdle ==
    /\ doc = <<>>
    /\ snapTool = "none"
    /\ scopeArg = "none"
    /\ scope = "none"
    /\ result = <<>>

\* the kind of element a pushed object describes: only the forms pass sets
\* `selector`, only the inputs pass sets `placeholder`
KindOf(x) ==
    IF "selector" \in DOMAIN x THEN "form"
    ELSE IF "placeholder" \in DOMAIN x THEN "input"
    ELSE "button"


(***************************************************************************)
(* Properties                                                              *)
(***************************************************************************)
IsSelector(x) == x \in Sels

\* C1: a fill/click call whose first K candidates fail and whose candidate
\* K+1 succeeds has attempted exactly candidates 1..K+1 in the given order
\* and returns success together with candidate K+1 as the selector used.
C1_SuccessReportsSelector ==
    epc = "returned" =>
        LET k == Len(failed)
        IN  /\ failed = SubSeq(selectors, 1, k)
            /\ tried = SubSeq(selectors, 1, k + 1)
            /\ ret.kind = "return"
            /\ ret.success
            /\ "selector" \in DOMAIN ret
            /\ ret.selector = selectors[k + 1]

\* C2: a fill/click call whose candidates all fail throws an error that
\* carries exactly the attempted candidates, all of them, in input order.
C2_FailureListsAttempted ==
    (epc = "threw" /\ Len(selectors) >= 1) =>
        /\ tried = selectors
        /\ failed = selectors
        /\ ret.kind = "throw"
        /\ SelectSeq(ret.message, IsSelector) = tried

\* the runner functions that pass a maxTurns of their own and handle the
\* run's errors themselves
BudgetedRunners == {"talkToAgent", "talkToAgentB", "runTask"}

\* C3: a runner function that owns a launched browser has issued exactly one
\* browser.close() when it ends, on every path.
C3_ClosedExactlyOnce ==
    (lpc = "done" /\ LaunchedAtLoad(prog)) => closes = 1

\* C4: with a planner that never gives a final output the run ends after
\* exactly maxTurns executed tool cycles, in the terminal state Exhausted.
C4_ExhaustedAfterMaxTurns ==
    (lpc = "done" /\ prog \in BudgetedRunners /\ runOut = "MaxTurnsExceeded") =>
        /\ cycles = maxTurns(prog)
        /\ LoopState = "Exhausted"

\* C5: when the planner gives its final output the loop ends Completed and has
\* taken exactly one more capture after that signal before it terminates.
C5_CompletedWithFinalCapture ==
    (lpc = "done" /\ prog \in BudgetedRunners /\ runOut = "resolved") =>
        /\ LoopState = "Completed"
        /\ captures = capturesAtSignal + 1

\* C6: running out of turns does not take the failure path: nothing is
\* logged as a failure, the function's promise resolves, and the terminal
\* state is not Failed.
C6_ExhaustionIsNotFailure ==
    (lpc = "done" /\ prog \in BudgetedRunners /\ runOut = "MaxTurnsExceeded") =>
        /\ ~TookFailurePath
        /\ fnOut = "resolved"
        /\ LoopState # "Failed"

\* C7: when the run rejects with an error that was not handed back to the
\* planner, the loop ends Failed, has closed the session, and the error
\* reaches the caller (the function's promise rejects).
C7_ErrorPropagates ==
    (lpc = "done" /\ prog \in BudgetedRunners /\ runOut = "RunError") =>
        /\ LoopState = "Failed"
        /\ closes >= 1
        /\ fnOut = "rejected"

\* C8: the session never owns more than one live page.
C8_AtMostOnePage == Cardinality(LivePages) <= 1

IsOpen(e) == e.op \in {"openBrowser", "openBrowser1"}

\* C9: of two open calls in succession (the first one returned, nothing in
\* between) the second changes nothing, reports that the browser is already
\* open, and leaves exactly one session.
C9_OpenTwiceIdempotent ==
    \A i \in 1..(Len(oplog) - 1) :
        (IsOpen(oplog[i]) /\ IsOpen(oplog[i + 1]) /\ oplog[i].ret.kind = "return") =>
            /\ oplog[i + 1].post = oplog[i + 1].pre
            /\ oplog[i + 1].ret = [kind |-> "return", value |-> "Browser is already open"]
            /\ oplog[i + 1].post.nb = 1
            /\ oplog[i + 1].post.np <= 1

\* C10: a closeBrowser call that returns on an open session has released the
\* browser with its pages and reset both handles to null; on a closed session
\* it returns "No browser was open", never throws, and changes nothing.
C10_CloseResets ==
    \A i \in 1..Len(oplog) :
        LET e == oplog[i]
        IN  e.op = "closeBrowser" =>
              /\ (e.pre.browser # NoBrowser /\ e.ret.kind = "return") =>
                    /\ e.ret.value = "Browser closed successfully"
                    /\ e.post.browser = NoBrowser
                    /\ e.post.page = NoPage
                    /\ e.post.nb = 0
                    /\ e.post.np = 0
              /\ e.pre.browser = NoBrowser =>
                    /\ e.ret = [kind |-> "return", value |-> "No browser was open"]
                    /\ e.post = e.pre
                    /\ e.post.page = NoPage

\* C10 witness: a session with a page was closed, then closed again
C10_Witness ==
    \E i \in 1..(Len(oplog) - 1) :
        /\ oplog[i].op = "closeBrowser"
        /\ oplog[i].pre.np = 1
        /\ oplog[i].ret = [kind |-> "return", value |-> "Browser closed successfully"]
        /\ oplog[i + 1].op = "closeBrowser"
        /\ oplog[i + 1].ret = [kind |-> "return", value |-> "No browser was open"]

\* C11: a tool other than open and close that is invoked while the session
\* has no page (before the first open, or after a close) throws its
\* no-page error and leaves browser, page, live browsers, live pages and
\* page locations as they were.
C11_NoPageNotReady ==
    \A i \in 1..Len(oplog) :
        LET e == oplog[i]
        IN  (e.op \in PageTools /\ e.pre.page = NoPage) =>
              /\ e.ret.kind = "throw"
              /\ e.ret.value = NoPageError(e.op)
              /\ e.ret.value \in SessionNotReady
              /\ e.post = e.pre

\* C11 witness: a page tool was refused before the first open, the session
\* was opened and closed, and a page tool was refused again
C11_Witness ==
    \E i, j, k, l \in 1..Len(oplog) :
        /\ i < j /\ j < k /\ k < l
        /\ oplog[i].op \in PageTools /\ oplog[i].ret.kind = "throw"
        /\ oplog[i].pre.page = NoPage /\ oplog[i].pre.nb = 0
        /\ oplog[j].op = "openBrowser" /\ oplog[j].post.np = 1
        /\ oplog[k].op = "closeBrowser" /\ oplog[k].post.page = NoPage
        /\ oplog[l].op \in PageTools /\ oplog[l].ret.kind = "throw"
        /\ oplog[l].pre.page = NoPage

\* the place of a candidate in the priority order identifier, name,
\* placeholder, type, class, read off the candidate's text
Rank(c) ==
    CASE c[1] = "#"                          -> 1
      [] c[1] = "[name="                     -> 2
      [] c[1] = "[placeholder="              -> 3
      [] c[1] \in {"input[type=", "[type="}  -> 4
      [] OTHER                               -> 5

HasSelectors(x) == "selectors" \in DOMAIN x

\* C12: in every candidate list of a snapshot the candidates stand in the
\* order identifier, name, placeholder, type, class.
C12_CandidateOrder ==
    \A k \in 1..Len(result) :
        HasSelectors(result[k]) =>
            \A i, j \in 1..Len(result[k].selectors) :
                i < j => Rank(result[k].selectors[i]) < Rank(result[k].selectors[j])

\* the element has a non-empty id, name, placeholder, type or class attribute
HasAttribute(e) ==
    \/ e.id # ""
    \/ e.name # ""
    \/ e.placeholder # ""
    \/ e.typeAttr # ""
    \/ e.className # <<>>

\* C13: the candidate list of a described input or button that has a
\* non-empty id, name, placeholder, type or class attribute is not empty.
C13_CandidatesNotEmpty ==
    \A k \in 1..Len(result) :
        (HasSelectors(result[k]) /\ HasAttribute(doc[result[k].node])) =>
            result[k].selectors # <<>>

\* C13 witness: an input whose only attribute is its class was described,
\* its one candidate comes from the type the DOM gives it
C13_Witness ==
    \E k \in 1..Len(result) :
        /\ doc[result[k].node] = El("input", "", "", "", "", <<"c">>)
        /\ KindOf(result[k]) = "input"
        /\ result[k].selectors = <<InputTypeSel("text")>>

\* C14: a snapshot holds only descriptors of the kind its scope names (any
\* kind for "all"), and a call without scope has scope "form".
C14_OnlyScope ==
    snapTool # "none" =>
        /\ scopeArg = "undefined" => scope = "form"
        /\ scope \in Scopes =>
              \A k \in 1..Len(result) : scope = "all" \/ KindOf(result[k]) = scope

\* C15: the descriptors of a snapshot stand in document order whatever their
\* kind, and no element is described twice.
C15_DocumentOrder ==
    \A j, k \in 1..Len(result) : j < k => result[j].node < result[k].node

\* operations under way: tool invocations that have not settled and page
\* actions they started that have not settled
Active == Cardinality({s \in slots : calls[s].op # "idle"}) + background

\* C16: the operations on the session run one after the other: at no time
\* is more than one operation (its page action included) under way.
C16_OneAtATime == Active <= 1

IsCapture(e) == e.op \in CaptureTools \cup {"takeScreenshot"}

\* a capture leaves the session as it was: browser and page handles, live
\* browsers and pages, page locations
CaptureFrame ==
    \A i \in 1..Len(oplog) : IsCapture(oplog[i]) => oplog[i].post = oplog[i].pre

\* what a capture returns is the image
CaptureReturnsImage ==
    \A i \in 1..Len(oplog) :
        (IsCapture(oplog[i]) /\ oplog[i].ret.kind = "return") => oplog[i].ret.value = Image

\* C17: a capture only observes: it leaves the session and the page location
\* as they were, and it returns the image itself.
C17_CaptureObserves == CaptureFrame /\ CaptureReturnsImage

\* C18: a planner response asks for at most one action: no turn counted
\* against maxTurns executes more than one fill / click call (so the calls
\* executed never outnumber the turns).
C18_OneActionPerTurn ==
    prog \in BudgetedRunners => acted <= 1

\* C19: every fill / click call executed had a snapshot and a capture before
\* it, taken after the previous fill / click call (or after the task start).
C19_ObservedBeforeAction ==
    prog \in BudgetedRunners => ~blind

\* the page steps of an attempt
Steps == {"waitForSelector", "click", "type"}

IsStep(x) == x \in Steps

\* the executors whose catch block is `continue` alone
DiscardingTools == {"inputWriter", "clicker"}

\* where a call stands: the candidates attempted are the first ones of the
\* list, each once and in order, and all but the current one have failed
AttemptsBounded ==
    /\ Len(tried) <= Len(selectors)
    /\ tried = SubSeq(selectors, 1, Len(tried))
    /\ failed = SubSeq(selectors, 1, Len(failed))
    /\ epc \in {"wait", "click", "type"} => (idx = Len(tried) /\ Len(failed) = idx - 1)
    /\ epc = "returned" => (Len(failed) = Len(tried) - 1 /\ ret.kind = "return" /\ ret.success)
    /\ epc = "threw" => (tried = selectors /\ failed = selectors /\ ret.kind = "throw")

\* nothing of a failed attempt's error is kept or reported
ErrorsDiscarded ==
    tl \in DiscardingTools =>
        /\ errorMsg = Null
        /\ epc = "threw" => SelectSeq(ret.message, IsStep) = <<>>

\* C20: a fill / click call drops the error of a failed candidate and goes on
\* to the next one with a new waitForSelector; it attempts the candidates in
\* order, each at most once (at most N attempts over N candidates), and it
\* ends: it returns success or throws its failure.
C20_BoundedFallback ==
    /\ [](AttemptsBounded /\ ErrorsDiscarded)
    /\ (epc # "idle") ~> (epc \in {"returned", "threw"})

\* C20 witness: a fill_input call over two or more candidates failed on each
\* of them in turn and threw
C20_Witness ==
    /\ tl = "inputWriter"
    /\ epc = "threw"
    /\ Len(selectors) >= 2
    /\ tried = selectors

\* C21: when a fill returns success the field holds exactly the given value,
\* whatever it held before the call
C21_FillSetsValue ==
    (epc = "returned" /\ tl \in FillTools) => field.lines = <<value>>

\* C22: nothing is rolled back between candidates: once a candidate has
\* failed, the field and the selection are still as the last page step that
\* took effect left them, during the later attempts and when the call ends
C22_PartialEffectPersists ==
    failed # <<>> => (field = effected.field /\ selection = effected.selection)

\* a fill that ended with every candidate failed and the field changed
C22_Witness ==
    /\ tl \in FillTools
    /\ epc = "threw"
    /\ selection.line # 0
    /\ field # field0

\* C25: a fill or click called with an empty selector list issues no wait and
\* no page action and throws the all-candidates-failed error, whose attempted
\* list (what follows the fixed text of the message) is empty
C25_EmptyListFails ==
    (tl # "none" /\ selectors = <<>>) =>
        /\ epc = "threw"
        /\ tried = <<>>
        /\ clicked = 0
        /\ field = field0
        /\ selection = NoSelection
        /\ ret = FailureResult(tl, selectors, errorMsg)
        /\ Tail(ret.message) = <<>>

\* C23: the page handle is set only while the browser handle is set, in every
\* reachable state, also when a close runs while an open is suspended
C23_PageImpliesBrowser ==
    page # NoPage => browser # NoBrowser

\* every tool invocation has settled
Quiescent == \A s \in slots : calls[s].op = "idle"

\* C24: when opens overlap at most one browser is running, and once the
\* calls have settled every running browser is the one the handle refers to,
\* so that a later close releases it
C24_OneBrowserNoLeak ==
    /\ Cardinality(liveBrowsers) <= 1
    /\ Quiescent => liveBrowsers \subseteq {browser}

(***************************************************************************)
(* Specifications                                                          *)
(***************************************************************************)
ExecInit == ExecIdle /\ LoopIdle /\ SessIdle /\ SnapIdle

ExecStart == \E t \in ExecTools, sels \in SelectorLists : ExecCall(t, sels, <<"x">>)

ExecNext ==
    \/ ExecStart /\ UNCHANGED <<loopVars, sessVars, snapVars>>
    \/ WaitForSelector /\ UNCHANGED <<loopVars, sessVars, snapVars>>
    \/ Click /\ UNCHANGED <<loopVars, sessVars, snapVars>>
    \/ Type /\ UNCHANGED <<loopVars, sessVars, snapVars>>

SpecExec == ExecInit /\ [][ExecNext]_vars

\* an awaited page step settles: waitForSelector within its timeout, click
\* and type when the page answers
ExecStep == (WaitForSelector \/ Click \/ Type) /\ UNCHANGED <<loopVars, sessVars, snapVars>>

SpecExecFair == ExecInit /\ [][ExecNext]_vars /\ WF_vars(ExecStep)

\* the same executors on a page whose field holds text already, with every
\* value; the candidates all address that field
FieldInit == (\E f \in Fields : ExecIdleOn(f)) /\ LoopIdle /\ SessIdle /\ SnapIdle

FieldStart ==
    \E t \in ExecTools, sels \in SeqsUpTo({"#id"}, MaxSel), v \in Values :
        ExecCall(t, sels, v)

FieldNext ==
    \/ FieldStart /\ UNCHANGED <<loopVars, sessVars, snapVars>>
    \/ WaitForSelector /\ UNCHANGED <<loopVars, sessVars, snapVars>>
    \/ Click /\ UNCHANGED <<loopVars, sessVars, snapVars>>
    \/ Type /\ UNCHANGED <<loopVars, sessVars, snapVars>>

SpecField == FieldInit /\ [][FieldNext]_vars

LoopInit == ExecIdle /\ LoopIdle /\ SessIdle /\ SnapIdle

LoopStart == \E p \in Programs : TaskStart(p)

LoopNext ==
    \/ LoopStart /\ UNCHANGED <<execVars, sessVars, snapVars>>
    \/ RunnerTurn /\ UNCHANGED <<execVars, sessVars, snapVars>>
    \/ ToolsExec /\ UNCHANGED <<execVars, sessVars, snapVars>>
    \/ BrowserClose /\ UNCHANGED <<execVars, sessVars, snapVars>>

SpecLoop == LoopInit /\ [][LoopNext]_vars

\* tool invocations one after the other: the planner awaits each result
SessInit ==
    /\ ExecIdle /\ LoopIdle /\ SnapIdle
    /\ \E v \in {"guarded", "pages", "const"} : SessLoaded(v)
    /\ slots = {1}
    /\ calls = [s \in slots |-> IdleCall]

SessNext ==
    \/ \E s \in slots : OpenStart(s) /\ UNCHANGED <<execVars, loopVars, snapVars>>
    \/ \E s \in slots : OpenLaunched(s) /\ UNCHANGED <<execVars, loopVars, snapVars>>
    \/ \E s \in slots : OpenPaged(s) /\ UNCHANGED <<execVars, loopVars, snapVars>>
    \/ \E s \in slots : CloseStart(s) /\ UNCHANGED <<execVars, loopVars, snapVars>>
    \/ \E s \in slots : CloseDone(s) /\ UNCHANGED <<execVars, loopVars, snapVars>>
    \/ \E s \in slots, op \in PageTools, u \in Urls :
          PageToolStart(s, op, u) /\ UNCHANGED <<execVars, loopVars, snapVars>>
    \/ \E s \in slots : PageToolDone(s) /\ UNCHANGED <<execVars, loopVars, snapVars>>
    \/ \E s \in slots : NewPageStart(s) /\ UNCHANGED <<execVars, loopVars, snapVars>>
    \/ \E s \in slots : NewPageDone(s) /\ UNCHANGED <<execVars, loopVars, snapVars>>
    \/ \E s \in slots, u \in Urls : UrlStart(s, u) /\ UNCHANGED <<execVars, loopVars, snapVars>>
    \/ \E s \in slots : UrlPaged(s) /\ UNCHANGED <<execVars, loopVars, snapVars>>
    \/ \E s \in slots : UrlDone(s) /\ UNCHANGED <<execVars, loopVars, snapVars>>
    \/ \E s \in slots : ClickScreen(s) /\ UNCHANGED <<execVars, loopVars, snapVars>>
    \/ ClickSettled /\ UNCHANGED <<execVars, loopVars, snapVars>>
    \/ \E s \in slots, t \in CaptureTools :
          CaptureStart(s, t) /\ UNCHANGED <<execVars, loopVars, snapVars>>
    \/ \E s \in slots : CaptureShot(s) /\ UNCHANGED <<execVars, loopVars, snapVars>>
    \/ \E s \in slots : CaptureWritten(s) /\ UNCHANGED <<execVars, loopVars, snapVars>>

SpecSession == SessInit /\ [][SessNext]_vars

\* open_browser and close_browser of the guarded session, with two tool calls
\* of one planner response under way at the same time
OverlapInit ==
    /\ ExecIdle /\ LoopIdle /\ SnapIdle
    /\ SessLoaded("guarded")
    /\ slots = {1, 2}
    /\ calls = [s \in slots |-> IdleCall]

OverlapNext ==
    \/ \E s \in slots : OpenStart(s) /\ UNCHANGED <<execVars, loopVars, snapVars>>
    \/ \E s \in slots : OpenLaunched(s) /\ UNCHANGED <<execVars, loopVars, snapVars>>
    \/ \E s \in slots : OpenPaged(s) /\ UNCHANGED <<execVars, loopVars, snapVars>>
    \/ \E s \in slots : CloseStart(s) /\ UNCHANGED <<execVars, loopVars, snapVars>>
    \/ \E s \in slots : CloseDone(s) /\ UNCHANGED <<execVars, loopVars, snapVars>>

SpecOverlap == OverlapInit /\ [][OverlapNext]_vars

\* a snapshot tool called on a page showing any small document
SnapInit ==
    /\ ExecIdle /\ LoopIdle /\ SessIdle
    /\ doc \in Docs
    /\ snapTool = "none"
    /\ scopeArg = "none"
    /\ scope = "none"
    /\ result = <<>>

SnapNext ==
    \/ PageStructure /\ UNCHANGED <<execVars, loopVars, sessVars>>
    \/ InspectDom /\ UNCHANGED <<execVars, loopVars, sessVars>>

SpecSnapshot == SnapInit /\ [][SnapNext]_vars

====
